---- MODULE Spec2Model ----
(***************************************************************************)
(* A model of the two servers of streamable-mcp-server:                    *)
(*   src/mcpServer.ts  the request/response server (POST/GET/DELETE /mcp)  *)
(*   src/sseServer.ts  the push-stream server (GET /sse, POST /sse,        *)
(*                     POST /messages)                                     *)
(* The two files are two programs; a behaviour is a run of one of them,    *)
(* chosen by `program`.  Each Express handler runs to its first `await`    *)
(* without interruption (Node's event loop), so a handler is one action up *)
(* to that point and one action per continuation.                          *)
(*                                                                         *)
(* The MCP SDK (the transports, McpServer) is a library outside the        *)
(* repository.  What the model takes from it is written next to the call   *)
(* that relies on it.                                                      *)
(***************************************************************************)
EXTENDS Integers, Sequences, FiniteSets, TLC

\* ------------------------------------------------------------------ bounds
MaxTransports == 2      \* transports (sessions) ever constructed in a run
MaxInv == 1             \* stream_numbers invocations ever started in a run
MaxCount == 2           \* largest `count` argument of stream_numbers

Objects == 1..MaxTransports     \* transport objects, in order of construction
Slots == 1..MaxInv
Counts == 0..MaxCount           \* the `count` arguments a client sends

\* ------------------------------------------------------- JavaScript values
\* `undefined`: an absent header or query parameter, a missing property.
Undefined == 0
\* A property name every object literal inherits from Object.prototype
\* ("constructor", "toString", "__proto__", ...): transports[name] is then a
\* truthy value that is not a transport.
ProtoKey == -1
ProtoMember == -1

Truthy(v) == v # Undefined

\* tbl[key] on a Record<string, T> created as {}.
Lookup(tbl, key) ==
    IF key \in DOMAIN tbl THEN tbl[key]
    ELSE IF key = ProtoKey THEN ProtoMember
    ELSE Undefined

\* Variant: an assignment of a new table holding the one entry.
Put_replaces(tbl, key, value) == [k \in {key} |-> value]

\* tbl[key] = value
Put(tbl, key, value) ==
    [k \in DOMAIN tbl \cup {key} |-> IF k = key THEN value ELSE tbl[k]]

\* Variant: a removal that resets the table.
Delete_clears(tbl, key) == [k \in {} |-> tbl[k]]

\* delete tbl[key]: removes the key if it is there, and is a no-op without
\* error if it is not.
Delete(tbl, key) == [k \in DOMAIN tbl \ {key} |-> tbl[k]]

EmptyTable == [k \in {} |-> Undefined]

\* ------------------------------------------------------------------- state
VARIABLES
    program,     \* which of the two servers runs
    transports,  \* the session table: session id -> transport object
    servers,     \* sseServer only: session id -> McpServer object
    uuids,       \* how many ids randomUUID() has returned
    heap,        \* the transport objects (with the McpServer connected to each)
    inv,         \* the stream_numbers invocations
    req,         \* the request handled last
    res          \* its response

vars == <<program, transports, servers, uuids, heap, inv, req, res>>

\* A string no session ever gets as its id.
BogusId == MaxTransports + 1

\* The session ids a client may send: none, an inherited property name, a string
\* that is no session's id, or an id generated so far (ids are random UUIDs: a
\* client learns them from the server and cannot guess the next one).
ClientIds == {Undefined, ProtoKey, BogusId} \cup (1..uuids)

\* A transport object and its tool server.  status:
\*   "none"        not constructed
\*   "connecting"  mcpServer: constructed, the POST handler awaits server.connect
\*   "failed"      mcpServer: the transport refused the initialization request
\*   "live"        sessionId set, connection usable
\*   "closed"      closed
\* server: the McpServer connected to the transport (servers are numbered like
\* the transports; serverCloseCalls counts the close() calls on server number t).
\* gone: mcpServer: the session's client has closed its connections.
\* listedAtClose: the table held the transport's id when close() ran on it.
NoObject ==
    [status |-> "none", sessionId |-> Undefined, server |-> 0,
     closeCalls |-> 0, serverCloseCalls |-> 0, gone |-> FALSE, listedAtClose |-> FALSE]

\* A stream_numbers invocation.  pc:
\*   "none"      slot unused
\*   "start"     the tool call is accepted, the handler has not run yet
\*   "sleep"     the handler awaits its timer after notification i
\*   "returned"  the handler returned its final result
\*   "threw"     the handler was aborted by a rejected await
\* notes: the notifications issued, each with the value embedded in its text,
\* whether its delivery succeeded and whether the session was alive when it was
\* issued.  result: where the returned final result goes ("written": to the live
\* transport, "transport closed": the transport was closed at the return).
\* count: the argument, 0 until the handler has started.
\* transport: the transport the invoking request was handed to; server: the tool
\* server that runs the handler.  Each notification records the transport it was
\* written to (`to`), and resultTo is the transport the final result went to.
NoInv ==
    [transport |-> 0, server |-> 0, count |-> 0, i |-> 0, pc |-> "none",
     notes |-> <<>>, result |-> "none", resultTo |-> 0]

NoReq == [method |-> "none", path |-> "none", sessionId |-> Undefined, body |-> "none"]
\* by: who wrote the response ("handler": the code of src/, "transport": the SDK
\* transport the request was forwarded to, "express": the framework's error path,
\* "none": nobody yet).  forwarded: the transport object the request was handed to.
NoRes == [by |-> "none", status |-> 0, code |-> 0, text |-> "", forwarded |-> 0]

Response(by, status, code, text, forwarded) ==
    [by |-> by, status |-> status, code |-> code, text |-> text, forwarded |-> forwarded]

Request(method, path, sessionId, body) ==
    [method |-> method, path |-> path, sessionId |-> sessionId, body |-> body]

\* JSON-RPC bodies a POST may carry.
Bodies == {"initialize", "tools/call stream_numbers", "other"}

\* Variant: a type guard that accepts every body.
isInitializeRequest_always(body) == TRUE

isInitializeRequest(body) == body = "initialize"

\* Variant: an id derived from the number of registered sessions.
randomUUID_fromTableSize == Cardinality(DOMAIN transports) + 1

\* crypto.randomUUID(): a value never returned before.
randomUUID == uuids + 1

Init ==
    /\ program \in {"mcpServer", "sseServer"}
    /\ transports = EmptyTable
    /\ servers = EmptyTable
    /\ uuids = 0
    /\ heap = [t \in Objects |-> NoObject]
    /\ inv = [k \in Slots |-> NoInv]
    /\ req = NoReq
    /\ res = NoRes


\* ------------------------------------------------------------ shared helpers
\* `new ...Transport(...)`: the next object not constructed yet.
Fresh(t) == heap[t].status = "none" /\ \A o \in Objects : o < t => heap[o].status # "none"

\* The first unused invocation slot.
FreeSlot(k) == inv[k].pc = "none" /\ \A j \in Slots : j < k => inv[j].pc # "none"

\* Variant: one module-level McpServer that every session connects.
createMcpServer_shared(t) == CHOOSE o \in Objects : \A other \in Objects : o <= other

\* createMcpServer(), called once in each handler that constructs a transport t:
\* `new McpServer(...)`, an instance of its own.
createMcpServer(t) == t

\* The transport a tool server writes to: the one it was connected to last
\* (from the SDK: connect() replaces the server's transport).
ServerTransport(server) ==
    CHOOSE t \in Objects :
        /\ heap[t].server = server
        /\ \A o \in Objects : heap[o].server = server => o <= t

\* The tool server of transport t receives a tools/call for stream_numbers:
\* the SDK schedules the registered handler.
CallTool(t) ==
    \E k \in Slots :
        /\ FreeSlot(k)
        /\ inv' = [inv EXCEPT ![k] = [NoInv EXCEPT !.transport = t,
                                                   !.server = heap[t].server,
                                                   !.pc = "start"]]

\* async ({ count }, extra) => ...: the handler takes `count` from the call's
\* arguments when it starts, and keeps it.
Argument(k) == IF inv[k].pc = "start" THEN Counts ELSE {inv[k].count}

\* `transport.handleRequest(...)` / `transport.handlePostMessage(...)` where
\* `transport` is a property inherited from Object.prototype: the member is
\* undefined and the call throws a TypeError inside the async handler.  Express 5
\* turns the rejected promise into a 500; Express 4 leaves the request without a
\* response.
UncaughtTypeError ==
    {Response("express", 500, 0, "TypeError", 0), Response("none", 0, 0, "TypeError", 0)}

\* What a notification issued on transport t can meet: a closed transport
\* rejects it (the SDK's "Not connected"); on a live one the write may still fail.
Delivery(t) == IF heap[t].status = "live" THEN BOOLEAN ELSE {FALSE}

\* `return {content: ...}`: the SDK writes the result to the handler's transport.
Returned(t) == IF heap[t].status = "live" THEN "written" ELSE "transport closed"

\* extra.sendNotification(...) of a handler whose tool server writes to t.
Note(value, ok, t) ==
    [value |-> value, ok |-> ok, live |-> heap[t].status = "live", to |-> t]

\* ------------------------------------------------------------- mcpServer.ts
\* onsessioninitialized: (sessionId) => { transports[sessionId] = transport }
onsessioninitialized(sessionId, t) == Put(transports, sessionId, t)

\* Variant: an onclose that leaves the table entry in place.
onclose_keepsEntry(t) == transports

\* transport.onclose = () => { if (transport.sessionId) delete transports[...] }
onclose(t) ==
    IF Truthy(heap[t].sessionId) THEN Delete(transports, heap[t].sessionId) ELSE transports

\* await transport.handleRequest(req, res, req.body) on a StreamableHTTP
\* transport.  From the SDK: the first initialization request makes the
\* transport generate its id and call onsessioninitialized, unless the transport
\* refuses the request (unacceptable headers); an initialized transport refuses
\* another initialization; DELETE closes the transport, and close() ends by
\* calling onclose.
McpHandleRequest(t, method, body) ==
    /\ res' = Response("transport", 0, 0, "", t)
    /\ IF heap[t].status = "connecting"
       THEN \E accepted \in BOOLEAN :
              IF accepted
              THEN /\ heap' = [heap EXCEPT ![t].status = "live", ![t].sessionId = randomUUID]
                   /\ uuids' = uuids + 1
                   /\ transports' = onsessioninitialized(randomUUID, t)
                   /\ UNCHANGED inv
              ELSE /\ heap' = [heap EXCEPT ![t].status = "failed"]
                   /\ UNCHANGED <<uuids, transports, inv>>
       ELSE IF method = "DELETE"
       THEN /\ heap' = [heap EXCEPT ![t].status = "closed", ![t].closeCalls = @ + 1,
                                    ![t].listedAtClose = heap[t].sessionId \in DOMAIN transports]
            /\ transports' = onclose(t)
            /\ UNCHANGED <<uuids, inv>>
       ELSE IF method = "POST" /\ body = "tools/call stream_numbers"
       THEN /\ CallTool(t)
            /\ UNCHANGED <<heap, uuids, transports>>
       ELSE UNCHANGED <<heap, uuids, transports, inv>>

\* Variant: the initialization test made before the session lookup.
PostMcpBranch_initializeFirst(sessionId, body) ==
    IF isInitializeRequest(body) THEN "initialize"
    ELSE IF Truthy(sessionId) /\ Truthy(Lookup(transports, sessionId)) THEN "existing"
    ELSE "reject"

\* The if / else if / else of app.post("/mcp", ...).
PostMcpBranch(sessionId, body) ==
    IF Truthy(sessionId) /\ Truthy(Lookup(transports, sessionId)) THEN "existing"
    ELSE IF ~Truthy(sessionId) /\ isInitializeRequest(body) THEN "initialize"
    ELSE "reject"

\* First branch: transport = transports[sessionId], then line 124.
PostMcpExisting(sessionId, body) ==
    LET transport == Lookup(transports, sessionId) IN
    IF transport \in Objects
    THEN McpHandleRequest(transport, "POST", body)
    ELSE /\ res' \in UncaughtTypeError
         /\ UNCHANGED <<heap, uuids, transports, inv>>

\* Variant: the new transport entered in the table at construction, under the
\* id it is going to get.
PostMcpInitialize_publishesEarly ==
    \E t \in Objects :
        /\ Fresh(t)
        /\ heap' = [heap EXCEPT ![t].status = "connecting", ![t].server = createMcpServer(t)]
        /\ transports' = Put(transports, randomUUID, t)
        /\ res' = NoRes
        /\ UNCHANGED <<uuids, inv>>

\* Second branch, up to `await server.connect(transport)`: a new transport with
\* its callbacks and a new tool server; nothing is entered in the table.
PostMcpInitialize ==
    \E t \in Objects :
        /\ Fresh(t)
        /\ heap' = [heap EXCEPT ![t].status = "connecting", ![t].server = createMcpServer(t)]
        /\ res' = NoRes
        /\ UNCHANGED <<uuids, transports, inv>>

\* Third branch: res.status(400).json({jsonrpc, error: {code, message}, id: null}).
PostMcpReject ==
    /\ res' = Response("handler", 400, -32000, "Bad Request: No valid session ID provided", 0)
    /\ UNCHANGED <<heap, uuids, transports, inv>>

\* app.post("/mcp", ...) up to its first await.
PostMcp(sessionId, body) ==
    /\ program = "mcpServer"
    /\ req' = Request("POST", "/mcp", sessionId, body)
    /\ UNCHANGED <<program, servers>>
    /\ LET branch == PostMcpBranch(sessionId, body) IN
       IF branch = "existing" THEN PostMcpExisting(sessionId, body)
       ELSE IF branch = "initialize" THEN PostMcpInitialize
       ELSE PostMcpReject

\* app.post("/mcp", ...) after `await server.connect(transport)`: the
\* initialization request is handed to the new transport.
PostMcpConnected(t) ==
    /\ program = "mcpServer"
    /\ heap[t].status = "connecting"
    /\ req' = Request("POST", "/mcp", Undefined, "initialize")
    /\ McpHandleRequest(t, "POST", "initialize")
    /\ UNCHANGED <<program, servers>>

\* handleSessionRequest: app.get("/mcp") and app.delete("/mcp").
handleSessionRequest(method, sessionId) ==
    /\ program = "mcpServer"
    /\ req' = Request(method, "/mcp", sessionId, "none")
    /\ UNCHANGED <<program, servers>>
    /\ IF ~Truthy(sessionId) \/ ~Truthy(Lookup(transports, sessionId))
       THEN /\ res' = Response("handler", 400, 0, "Invalid or missing session ID", 0)
            /\ UNCHANGED <<heap, uuids, transports, inv>>
       ELSE LET transport == Lookup(transports, sessionId) IN
            IF transport \in Objects
            THEN McpHandleRequest(transport, method, "none")
            ELSE /\ res' \in UncaughtTypeError
                 /\ UNCHANGED <<heap, uuids, transports, inv>>

\* The client of the session of transport t closes its connections without a
\* DELETE.  mcpServer.ts registers no listener for it (no req.on / res.on in any
\* handler) and the transport does not close on it: nothing but the flag changes.
\* (In sseServer the connection's close is ResOnClose.)
ClientGone(t) ==
    /\ program = "mcpServer"
    /\ heap[t].status = "live"
    /\ ~heap[t].gone
    /\ heap' = [heap EXCEPT ![t].gone = TRUE]
    /\ UNCHANGED <<program, transports, servers, uuids, inv, req, res>>

\* The stream_numbers handler of mcpServer.ts, one loop iteration per step:
\*   for (i = 1; i <= count; i++) { await extra.sendNotification(text i);
\*                                  await timer }   return "Done!"
\* The awaited sendNotification rejects when the delivery fails, and nothing
\* catches it: the handler ends there.
McpStreamNumbers(k) ==
    /\ program = "mcpServer"
    /\ inv[k].pc \in {"start", "sleep"}
    /\ \E count \in Argument(k) :
         LET i == inv[k].i + 1
             transport == ServerTransport(inv[k].server)
         IN
         IF i <= count
         THEN \E ok \in Delivery(transport) :
                inv' = [inv EXCEPT ![k].count = count,
                                   ![k].i = i,
                                   ![k].notes = Append(@, Note(i, ok, transport)),
                                   ![k].pc = IF ok THEN "sleep" ELSE "threw"]
         ELSE inv' = [inv EXCEPT ![k].count = count,
                                 ![k].i = i,
                                 ![k].pc = "returned",
                                 ![k].result = Returned(transport),
                                 ![k].resultTo = transport]
    /\ UNCHANGED <<program, transports, servers, uuids, heap, req, res>>

\* ------------------------------------------------------------- sseServer.ts
\* await transport.handlePostMessage(req, res, req.body) on an SSE transport.
\* From the SDK: the message is answered 202 Accepted and handed to the tool
\* server connected to the transport.
SseHandlePostMessage(t, body) ==
    /\ res' = Response("transport", 0, 0, "", t)
    /\ IF body = "tools/call stream_numbers"
       THEN CallTool(t)
       ELSE UNCHANGED inv

\* Variant: a GET /sse handler that yields after line 121, the transport in
\* the table and its tool server not made yet.
GetSse_publishesOnly ==
    /\ program = "sseServer"
    /\ \E t \in Objects :
         /\ Fresh(t)
         /\ LET sessionId == randomUUID IN
            /\ heap' = [heap EXCEPT ![t].status = "live", ![t].sessionId = sessionId]
            /\ uuids' = uuids + 1
            /\ transports' = Put(transports, sessionId, t)
            /\ servers' = servers
            /\ req' = Request("GET", "/sse", Undefined, "none")
            /\ res' = Response("transport", 0, 0, "", t)
    /\ UNCHANGED <<program, inv>>

\* app.get("/sse", ...): the whole handler, it awaits nothing.  The SDK's
\* SSEServerTransport constructor sets sessionId = randomUUID().
GetSse ==
    /\ program = "sseServer"
    /\ \E t \in Objects :
         /\ Fresh(t)
         /\ LET sessionId == randomUUID IN
            /\ heap' = [heap EXCEPT ![t].status = "live", ![t].sessionId = sessionId,
                                    ![t].server = createMcpServer(t)]
            /\ uuids' = uuids + 1
            /\ transports' = Put(transports, sessionId, t)
            /\ servers' = Put(servers, sessionId, createMcpServer(t))
            /\ req' = Request("GET", "/sse", Undefined, "none")
            /\ res' = Response("transport", 0, 0, "", t)
    /\ UNCHANGED <<program, inv>>

\* Variant: a close handler without its first half (lines 127-128).
ResOnClose_keepsTransport(t) ==
    /\ program = "sseServer"
    /\ heap[t].status = "live"
    /\ LET sessionId == heap[t].sessionId
           server == Lookup(servers, sessionId)
       IN
       /\ servers' = IF Truthy(server) THEN Delete(servers, sessionId) ELSE servers
       /\ heap' = [o \in Objects |->
                     [heap[o] EXCEPT
                        !.serverCloseCalls = IF Truthy(server) /\ o = server THEN @ + 1 ELSE @]]
    /\ UNCHANGED <<program, transports, uuids, inv, req, res>>

\* Variant: a close handler without its second half (lines 130-134).
ResOnClose_leaksServer(t) ==
    /\ program = "sseServer"
    /\ heap[t].status = "live"
    /\ transports' = Delete(transports, heap[t].sessionId)
    /\ heap' = [heap EXCEPT ![t].status = "closed", ![t].closeCalls = @ + 1,
                            ![t].listedAtClose = heap[t].sessionId \in DOMAIN transports]
    /\ UNCHANGED <<program, servers, uuids, inv, req, res>>

\* res.on("close", ...) of the GET /sse of transport t: Node emits 'close' once
\* per response.  `sessionId` is the constant the handler captured.  The
\* statements in their order: transport.close() (127), delete
\* transports[sessionId] (128), server.close() and delete servers[sessionId]
\* (130-134); the handler awaits nothing.
ResOnClose(t) ==
    /\ program = "sseServer"
    /\ heap[t].status = "live"
    /\ LET sessionId == heap[t].sessionId
           server == Lookup(servers, sessionId)
       IN
       /\ transports' = Delete(transports, sessionId)
       /\ servers' = IF Truthy(server) THEN Delete(servers, sessionId) ELSE servers
       /\ heap' = [o \in Objects |->
                     [heap[o] EXCEPT
                        !.status = IF o = t THEN "closed" ELSE @,
                        !.closeCalls = IF o = t THEN @ + 1 ELSE @,
                        !.listedAtClose =
                            IF o = t THEN sessionId \in DOMAIN transports ELSE @,
                        !.serverCloseCalls = IF Truthy(server) /\ o = server THEN @ + 1 ELSE @]]
    /\ UNCHANGED <<program, uuids, inv, req, res>>

\* app.post("/sse", ...): the legacy message endpoint.
PostSse(sessionId, body) ==
    /\ program = "sseServer"
    /\ req' = Request("POST", "/sse", sessionId, body)
    /\ UNCHANGED <<program, transports, servers, uuids, heap>>
    /\ LET transport == IF Truthy(sessionId) THEN Lookup(transports, sessionId) ELSE sessionId IN
       IF ~Truthy(transport)
       THEN /\ res' = Response("handler", 400, 0, "Invalid or missing sessionId", 0)
            /\ UNCHANGED inv
       ELSE IF transport \in Objects
       THEN SseHandlePostMessage(transport, body)
       ELSE /\ res' \in UncaughtTypeError
            /\ UNCHANGED inv

\* Variant: a /messages handler that hands the request over without its parsed
\* body (as handleSessionRequest does), so the transport sees no message.
PostMessages_dropsBody(sessionId, body) ==
    /\ program = "sseServer"
    /\ req' = Request("POST", "/messages", sessionId, body)
    /\ UNCHANGED <<program, transports, servers, uuids, heap>>
    /\ LET transport == IF Truthy(sessionId) THEN Lookup(transports, sessionId) ELSE sessionId IN
       IF ~Truthy(transport)
       THEN /\ res' = Response("handler", 400, 0, "Invalid or missing sessionId", 0)
            /\ UNCHANGED inv
       ELSE IF transport \in Objects
       THEN SseHandlePostMessage(transport, "none")
       ELSE /\ res' \in UncaughtTypeError
            /\ UNCHANGED inv

\* app.post("/messages", ...): the current message endpoint.
PostMessages(sessionId, body) ==
    /\ program = "sseServer"
    /\ req' = Request("POST", "/messages", sessionId, body)
    /\ UNCHANGED <<program, transports, servers, uuids, heap>>
    /\ LET transport == IF Truthy(sessionId) THEN Lookup(transports, sessionId) ELSE sessionId IN
       IF ~Truthy(transport)
       THEN /\ res' = Response("handler", 400, 0, "Invalid or missing sessionId", 0)
            /\ UNCHANGED inv
       ELSE IF transport \in Objects
       THEN SseHandlePostMessage(transport, body)
       ELSE /\ res' \in UncaughtTypeError
            /\ UNCHANGED inv

\* The stream_numbers handler of sseServer.ts, one loop iteration per step:
\*   for (i = 1; i <= count; i++) { extra.sendNotification(text 2*i).catch(log);
\*                                  await timer }   return accumulator
\* The notification is not awaited and its rejection is caught and logged.
SseStreamNumbers(k) ==
    /\ program = "sseServer"
    /\ inv[k].pc \in {"start", "sleep"}
    /\ \E count \in Argument(k) :
         LET i == inv[k].i + 1
             transport == ServerTransport(inv[k].server)
         IN
         IF i <= count
         THEN \E ok \in Delivery(transport) :
                inv' = [inv EXCEPT ![k].count = count,
                                   ![k].i = i,
                                   ![k].notes = Append(@, Note(i * 2, ok, transport)),
                                   ![k].pc = "sleep"]
         ELSE inv' = [inv EXCEPT ![k].count = count,
                                 ![k].i = i,
                                 ![k].pc = "returned",
                                 ![k].result = Returned(transport),
                                 ![k].resultTo = transport]
    /\ UNCHANGED <<program, transports, servers, uuids, heap, req, res>>

\* ----------------------------------------------------------- specification
Next ==
    \/ \E sessionId \in ClientIds, body \in Bodies :
         PostMcp(sessionId, body)
    \/ \E t \in Objects : PostMcpConnected(t)
    \/ \E method \in {"GET", "DELETE"}, sessionId \in ClientIds :
         handleSessionRequest(method, sessionId)
    \/ \E t \in Objects : ClientGone(t)
    \/ \E k \in Slots : McpStreamNumbers(k)
    \/ GetSse
    \/ \E t \in Objects : ResOnClose(t)
    \/ \E sessionId \in ClientIds, body \in Bodies :
         PostSse(sessionId, body)
    \/ \E sessionId \in ClientIds, body \in Bodies :
         PostMessages(sessionId, body)
    \/ \E k \in Slots : SseStreamNumbers(k)

Spec == Init /\ [][Next]_vars

\* The request handlers alone.  The stream_numbers steps read and write `inv`
\* only, so what holds of the tables and the transports in every behaviour of
\* SessionSpec holds in every behaviour of Spec.
SessionNext ==
    \/ \E sessionId \in ClientIds, body \in Bodies :
         PostMcp(sessionId, body)
    \/ \E t \in Objects : PostMcpConnected(t)
    \/ \E method \in {"GET", "DELETE"}, sessionId \in ClientIds :
         handleSessionRequest(method, sessionId)
    \/ GetSse
    \/ \E t \in Objects : ResOnClose(t)
    \/ \E sessionId \in ClientIds, body \in Bodies :
         PostSse(sessionId, body)
    \/ \E sessionId \in ClientIds, body \in Bodies :
         PostMessages(sessionId, body)

SessionSpec == Init /\ [][SessionNext]_vars

\* The life of sessions and of their invocations: the requests that create a
\* session, start stream_numbers in a registered session and destroy it, and the
\* handler's steps.  The requests left out are answered without a change to
\* the tables, the transports or the invocations, or (POST /sse) do to them what
\* POST /messages does.
PumpNext ==
    \/ PostMcp(Undefined, "initialize")
    \/ \E t \in Objects : PostMcpConnected(t)
    \/ \E sessionId \in DOMAIN transports :
         PostMcp(sessionId, "tools/call stream_numbers")
    \/ \E sessionId \in DOMAIN transports :
         handleSessionRequest("DELETE", sessionId)
    \/ \E k \in Slots : McpStreamNumbers(k)
    \/ GetSse
    \/ \E t \in Objects : ResOnClose(t)
    \/ \E sessionId \in DOMAIN transports :
         PostMessages(sessionId, "tools/call stream_numbers")
    \/ \E k \in Slots : SseStreamNumbers(k)

PumpSpec == Init /\ [][PumpNext]_vars

\* The request handlers and the clients' disconnections, with the one step the
\* event loop is bound to take: the continuation of `await server.connect`.
\* Requests and disconnections are the clients' to make or not.
LiveNext ==
    \/ SessionNext
    \/ \E t \in Objects : ClientGone(t)

LiveSpec ==
    /\ Init
    /\ [][LiveNext]_vars
    /\ WF_vars(\E t \in Objects : PostMcpConnected(t))


\* ------------------------------------------------------------------ claims
\* A step in which the handler itself answers 400, hands the request to no
\* transport and leaves the tables, the transports and the invocations alone.
Rejected400 ==
    /\ res'.by = "handler"
    /\ res'.status = 400
    /\ res'.forwarded = 0
    /\ UNCHANGED <<transports, servers, heap, uuids, inv>>

\* The ids of the sessions destroyed so far.
DestroyedIds == {heap[t].sessionId : t \in {o \in Objects : heap[o].status = "closed"}}

\* C1: once a session is destroyed, its id has no entry in the session table,
\* and every request carrying it (POST/GET/DELETE /mcp, POST /sse, POST
\* /messages) is answered 400 by the handler and forwarded to no transport.
C1_DestroyedSessionIsUnknown ==
    [][\A sessionId \in DestroyedIds :
          /\ Lookup(transports, sessionId) = Undefined
          /\ \A body \in Bodies :
                (\/ PostMcp(sessionId, body)
                 \/ PostSse(sessionId, body)
                 \/ PostMessages(sessionId, body)) => Rejected400
          /\ \A method \in {"GET", "DELETE"} :
                handleSessionRequest(method, sessionId) => Rejected400]_vars

\* A request carrying the id of a destroyed session has been rejected.
C1_Witness ==
    \E t \in Objects :
        /\ heap[t].status = "closed"
        /\ req.sessionId = heap[t].sessionId
        /\ res.by = "handler"
        /\ res.status = 400
        /\ res.forwarded = 0

\* C2: the ids of all transports that have one are pairwise distinct, and every
\* live session is found in the table under its own id: no creation, in any
\* interleaving, takes the id or the entry of another session.
C2_SessionIdsDistinct ==
    /\ \A t1, t2 \in Objects :
          (t1 # t2 /\ Truthy(heap[t1].sessionId) /\ Truthy(heap[t2].sessionId))
              => heap[t1].sessionId # heap[t2].sessionId
    /\ \A t \in Objects :
          heap[t].status = "live" => Lookup(transports, heap[t].sessionId) = t

\* Two sessions are registered at the same time.
C2_Witness ==
    \E t1, t2 \in Objects :
        /\ t1 # t2
        /\ heap[t1].status = "live"
        /\ heap[t2].status = "live"
        /\ {heap[t1].sessionId, heap[t2].sessionId} \subseteq DOMAIN transports

\* The JSON-RPC error envelope of POST /mcp, sent with the given HTTP status.
Envelope(r, status) ==
    /\ r.by = "handler"
    /\ r.status = status
    /\ r.code = -32000
    /\ r.text = "Bad Request: No valid session ID provided"
    /\ r.forwarded = 0

C4_UnknownSessionIs400 ==
    [][\A sessionId \in ClientIds :
          sessionId \notin DOMAIN transports =>
              /\ \A method \in {"GET", "DELETE"} :
                    handleSessionRequest(method, sessionId) => Rejected400
              /\ \A body \in Bodies :
                    (PostSse(sessionId, body) \/ PostMessages(sessionId, body))
                        => Rejected400]_vars

\* C5: a POST /mcp carrying an id that is in the session table is forwarded to
\* the transport registered under it, whatever the body: no transport is
\* constructed, no id generated and no table entry added or changed.
C5_KnownSessionWins ==
    [][\A sessionId \in DOMAIN transports : \A body \in Bodies :
          PostMcp(sessionId, body) =>
              /\ res'.by = "transport"
              /\ res'.forwarded = transports[sessionId]
              /\ UNCHANGED <<transports, servers, heap, uuids>>]_vars

\* An initialization-shaped POST /mcp carrying a known id was forwarded to
\* that session's transport.
C5_Witness ==
    /\ req.method = "POST"
    /\ req.path = "/mcp"
    /\ req.body = "initialize"
    /\ res.by = "transport"
    /\ res.forwarded \in Objects
    /\ Truthy(req.sessionId)
    /\ heap[res.forwarded].sessionId = req.sessionId

\* C6: in mcpServer every table entry is a transport whose handshake completed,
\* registered under the id that transport generated; a transport whose
\* handshake has not completed or has failed has no id and no entry.
C6_RegisteredOnlyAfterHandshake ==
    program = "mcpServer" =>
        /\ \A id \in DOMAIN transports :
              /\ transports[id] \in Objects
              /\ heap[transports[id]].status = "live"
              /\ heap[transports[id]].sessionId = id
        /\ \A t \in Objects :
              heap[t].status \in {"connecting", "failed"} =>
                  /\ ~Truthy(heap[t].sessionId)
                  /\ \A id \in DOMAIN transports : transports[id] # t

\* One handshake failed, one is still pending or done, and the table holds only
\* the transport that completed it.
C6_Witness ==
    /\ program = "mcpServer"
    /\ \E t1, t2 \in Objects :
          /\ heap[t1].status = "failed"
          /\ heap[t2].status = "live"
          /\ DOMAIN transports = {heap[t2].sessionId}


\* The invocations started so far.
Started == {k \in Slots : inv[k].pc # "none"}

\* The session of invocation k is alive (and so has been since the start).
SessionAlive(k) == heap[inv[k].transport].status = "live"

\* The value the i-th notification is to carry: i in mcpServer, 2*i in sseServer.
Embedded(i) == IF program = "mcpServer" THEN i ELSE 2 * i

\* The notifications of invocation k issued after its session was destroyed.
Late(k) == {j \in 1..Len(inv[k].notes) : ~inv[k].notes[j].live}

\* C7: on a live session, an invocation with count = n issues its notifications
\* in order, the i-th carrying the i-th value (strictly increasing), never more
\* than n, and ends with exactly n issued and one final result after them.
C7_ExactlyCountNotifications ==
    \A k \in Started :
        SessionAlive(k) =>
            /\ Len(inv[k].notes) <= inv[k].count
            /\ \A j \in 1..Len(inv[k].notes) : inv[k].notes[j].value = Embedded(j)
            /\ inv[k].pc # "threw"
            /\ inv[k].pc = "returned" =>
                  /\ Len(inv[k].notes) = inv[k].count
                  /\ inv[k].result = "written"

\* C8: when the delivery of a notification fails while the session is alive,
\* the invocation is not aborted: the failure does not end the handler, and the
\* handler returns only after all count notifications have been issued.
C8_DeliveryFailureDoesNotAbort ==
    \A k \in Started :
        (SessionAlive(k) /\ \E j \in 1..Len(inv[k].notes) : ~inv[k].notes[j].ok) =>
            /\ inv[k].pc \in {"sleep", "returned"}
            /\ inv[k].pc = "returned" => Len(inv[k].notes) = inv[k].count

\* C9: an invocation whose session is destroyed while it runs issues at most
\* one notification after the destruction and returns no final result to the
\* closed transport.
C9_StopsAfterDestruction ==
    \A k \in Started :
        /\ Cardinality(Late(k)) <= 1
        /\ inv[k].result # "transport closed"

\* C10: in sseServer a session is in both tables under the id of its transport
\* from the GET /sse on, with nothing closed; once its connection has closed,
\* the transport has been closed once, the tool server once, and the id is in
\* neither table.
C10_RegisteredThenDestroyedOnce ==
    program = "sseServer" =>
        \A t \in Objects :
            /\ heap[t].status \in {"none", "live", "closed"}
            /\ heap[t].status = "none" =>
                  heap[t].closeCalls = 0 /\ heap[t].serverCloseCalls = 0
            /\ heap[t].status = "live" =>
                  /\ Truthy(heap[t].sessionId)
                  /\ Lookup(transports, heap[t].sessionId) = t
                  /\ Lookup(servers, heap[t].sessionId) = t
                  /\ heap[t].closeCalls = 0
                  /\ heap[t].serverCloseCalls = 0
            /\ heap[t].status = "closed" =>
                  /\ heap[t].closeCalls = 1
                  /\ heap[t].serverCloseCalls = 1
                  /\ heap[t].sessionId \notin DOMAIN transports
                  /\ heap[t].sessionId \notin DOMAIN servers

\* One connection has closed while another session is still registered.
C10_Witness ==
    /\ program = "sseServer"
    /\ \E t1, t2 \in Objects :
          /\ heap[t1].status = "closed"
          /\ heap[t1].closeCalls = 1
          /\ heap[t1].serverCloseCalls = 1
          /\ heap[t2].status = "live"
          /\ DOMAIN transports = {heap[t2].sessionId}
          /\ DOMAIN servers = {heap[t2].sessionId}

\* The step of a message POST that completes at acceptance: the transport t
\* answers, a stream_numbers call leaves one new invocation that has not run
\* (nothing issued, no result), any other message leaves the invocations alone,
\* and nothing else changes.
AcceptedOnly(t, body) ==
    /\ res' = Response("transport", 0, 0, "", t)
    /\ UNCHANGED <<transports, servers, heap, uuids>>
    /\ IF body = "tools/call stream_numbers"
       THEN \E k \in Slots :
              /\ FreeSlot(k)
              /\ inv'[k].transport = t
              /\ inv'[k].pc = "start"
              /\ inv'[k].notes = <<>>
              /\ inv'[k].result = "none"
              /\ \A j \in Slots \ {k} : inv'[j] = inv[j]
       ELSE UNCHANGED inv

\* C11: in sseServer a POST /sse or POST /messages for a known session completes
\* in the step in which the session's transport accepts the message: an
\* invocation the message starts has issued nothing and returned nothing when
\* the handler is done, and the two paths have the same effect.
C11_PostCompletesAtAcceptance ==
    [][\A sessionId \in DOMAIN transports : \A body \in Bodies :
          /\ PostSse(sessionId, body) => AcceptedOnly(transports[sessionId], body)
          /\ PostMessages(sessionId, body) => AcceptedOnly(transports[sessionId], body)]_vars

\* A POST /messages carrying a stream_numbers call has been answered by the
\* session's transport while the invocation it started has not run.
C11_Witness ==
    /\ req.path = "/messages"
    /\ req.body = "tools/call stream_numbers"
    /\ res.by = "transport"
    /\ \E k \in Slots :
          /\ inv[k].pc = "start"
          /\ inv[k].transport = res.forwarded
          /\ heap[res.forwarded].sessionId = req.sessionId
          /\ inv[k].notes = <<>>

\* The transports constructed so far.
Constructed == {t \in Objects : heap[t].status # "none"}

Destroyed(t) ==
    /\ heap[t].status = "closed"
    /\ heap[t].sessionId \notin DOMAIN transports
    /\ heap[t].sessionId \notin DOMAIN servers

\* C13: a registered session whose client connection has closed, whose client
\* has sent DELETE /mcp or whose transport has closed is eventually destroyed:
\* its entry removed and its transport closed, in both servers.
C13_EventuallyDestroyed ==
    \A t \in Objects :
        (heap[t].gone \/ heap[t].status = "closed") ~> Destroyed(t)

\* What a successful lookup returns is a whole session: a live transport with
\* the id it is listed under, its tool server connected and not closed, and in
\* sseServer the server listed under the same id.
WholeSessions ==
    \A id \in DOMAIN transports :
        /\ transports[id] \in Objects
        /\ heap[transports[id]].status = "live"
        /\ heap[transports[id]].sessionId = id
        /\ heap[transports[id]].server \in Objects
        /\ heap[heap[transports[id]].server].serverCloseCalls = 0
        /\ program = "sseServer" => Lookup(servers, id) = heap[transports[id]].server

\* C14 as stated: a successful lookup returns a whole session, and on
\* destruction the entry is removed before the transport is released: close()
\* never runs on a transport whose id is still in the table.
C14_RemovedBeforeReleased ==
    /\ WholeSessions
    /\ \A t \in Objects :
          heap[t].status = "closed" =>
              ~heap[t].listedAtClose /\ heap[t].sessionId \notin DOMAIN transports

\* C14 as amended: a successful lookup returns a whole session; on destruction
\* the transport is closed while its id is still in the table and the entry is
\* removed in the same uninterrupted handler run, so no closed transport is
\* ever left in the table.
C14_ReleasedAndRemovedInOneRun ==
    /\ WholeSessions
    /\ \A t \in Objects :
          heap[t].status = "closed" =>
              heap[t].listedAtClose /\ heap[t].sessionId \notin DOMAIN transports

\* A request has been handed to the transport of a registered session after
\* another session was destroyed.
C14_Witness ==
    \E t1, t2 \in Objects :
        /\ heap[t1].status = "closed"
        /\ heap[t1].listedAtClose
        /\ heap[t2].status = "live"
        /\ res.by = "transport"
        /\ res.forwarded = t2
        /\ req.sessionId = heap[t2].sessionId
        /\ req.method = "POST"

\* The step enters transport t, which becomes a session in this step, under the
\* id it has got, and touches no other entry.
Insertion(t) ==
    /\ heap[t].status # "live"
    /\ heap'[t].status = "live"
    /\ heap'[t].sessionId \notin DOMAIN transports
    /\ DOMAIN transports' = DOMAIN transports \cup {heap'[t].sessionId}
    /\ transports'[heap'[t].sessionId] = t
    /\ \A id \in DOMAIN transports : transports'[id] = transports[id]

\* The step removes the entry of transport t, which is closed in this step, and
\* touches no other entry.
Deletion(t) ==
    /\ heap[t].status = "live"
    /\ heap'[t].status = "closed"
    /\ heap[t].sessionId \in DOMAIN transports
    /\ DOMAIN transports' = DOMAIN transports \ {heap[t].sessionId}
    /\ \A id \in DOMAIN transports' : transports'[id] = transports[id]

\* C15: every change of the session table is the insertion of a session created
\* in that step or the deletion of a session destroyed in that step; and
\* deleting again is a no-op: onclose run once more for a closed transport, or
\* a delete of any id that is not in the table, gives the table back unchanged.
C15_InsertOnCreateDeleteOnDestroy ==
    [][/\ transports' # transports =>
             \E t \in Objects : Insertion(t) \/ Deletion(t)
       /\ \A t \in Objects : heap[t].status = "closed" => onclose(t) = transports
       /\ \A id \in ClientIds \ DOMAIN transports :
             Delete(transports, id) = transports]_vars

\* In mcpServer one session has been deleted while another is in the table,
\* and the closed transport's onclose would leave the table as it is.
C15_Witness ==
    /\ program = "mcpServer"
    /\ \E t1, t2 \in Objects :
          /\ heap[t1].status = "closed"
          /\ heap[t1].sessionId \notin DOMAIN transports
          /\ onclose(t1) = transports
          /\ heap[t2].status = "live"
          /\ DOMAIN transports = {heap[t2].sessionId}

\* The transports a step acts on: those it constructs, initializes, fails or
\* closes.
Subjects == {t \in Objects : heap'[t] # heap[t]}

\* The step hands its request to transport t.
RoutedTo(t) == res'.by = "transport" /\ res'.forwarded = t

C17_UnknownIdNeverInitializes ==
    [][\A sessionId \in ClientIds : \A body \in Bodies :
          (/\ Truthy(sessionId)
           /\ sessionId \notin DOMAIN transports
           /\ PostMcp(sessionId, body)) =>
              /\ res'.by = "handler"
              /\ res'.code = -32000
              /\ res'.text = "Bad Request: No valid session ID provided"
              /\ res'.forwarded = 0
              /\ UNCHANGED <<transports, servers, heap, uuids, inv>>]_vars

\* C18: in sseServer, between handler runs, the transport table and the
\* tool-server table hold the same ids: no id is in one table only.
C18_TablesHaveSameIds ==
    program = "sseServer" => DOMAIN transports = DOMAIN servers

\* A GET /sse has registered a session in both tables after the close handler
\* removed another from both.
C18_Witness ==
    /\ program = "sseServer"
    /\ req.method = "GET"
    /\ \E t1, t2 \in Objects :
          /\ heap[t1].status = "closed"
          /\ res.forwarded = t2
          /\ heap[t2].status = "live"
          /\ heap[t2].sessionId \in DOMAIN transports \cap DOMAIN servers
          /\ heap[t1].sessionId \notin DOMAIN transports \cup DOMAIN servers

====
